---- MODULE Spec2Model ----
(***************************************************************************)
(* One invocation of clickhouse-backup: main() rebuilds the chain map from *)
(* the storage listing (parse_existing_backups), then backup_command picks *)
(* the base, runs the eviction pass (clean_old_backups), submits the       *)
(* BACKUP statement and polls its status (Client.backup).                  *)
(*                                                                         *)
(* Spec is that run. ClientSpec is main() up to the construction of the   *)
(* client, followed by one call of the command builder (Client.backup or   *)
(* Client.restore), for every target and every subset of its parameters.   *)
(*                                                                         *)
(* Timestamps of entities are integers in ticks; artifact names are token  *)
(* sequences that carry minute stamps (TIMESTAMP_FORMAT has no seconds).   *)
(***************************************************************************)
EXTENDS Integers, Sequences, FiniteSets, TLC

\* ---------------------------------------------------------------- bounds
\* minute stamps that occur in artifact names of the listing: 1..MaxTs
MaxTs == 3
\* number of artifact names in the storage listing
MaxFiles == 3
\* status polls that may still answer CREATING_BACKUP
MaxPolls == 1
\* ticks per minute: resolution of datetime below the name's minute stamp
TicksPerMinute == 2

\* ------------------------------------------------------------- constants
NoTs == 0                  \* None: no timestamp / no base backup
Minutes == 1..MaxTs

\* ---------------------------------------------------------------- codec
parse_timestamp(m) == m * TicksPerMinute
format_timestamp(t) == t \div TicksPerMinute

\* ------------------------------------------------------- artifact names
\* a name is a sequence of tokens: a run of digits and underscores (a minute
\* stamp), or a run of other characters (a word); '-' is a word of its own
Stamp(m) == [stamp |-> m, word |-> ""]
Word(w) == [stamp |-> NoTs, word |-> w]
Dash == Word("-")
IsStamp(tok) == tok.word = ""

\* BackupTarget
BackupTargets == {"File", "Disk", "S3", "S3-Disk"}

\* file_type of main(): None for the S3 targets, 'tar.gz' otherwise
NoType == ""
FileTypeOf(target) == IF target \in {"S3", "S3-Disk"} THEN NoType ELSE "tar.gz"

\* the target parameters of Client(): "" is a parameter that is not set
Missing == ""
ParamNames == {"backup_dir", "disk", "s3_endpoint", "s3_bucket",
               "s3_access_key_id", "s3_secret_access_key"}
ParamValue(name) ==
    CASE name = "backup_dir" -> "/var/backups"
      [] name = "disk" -> "backups"
      [] name = "s3_endpoint" -> "https://s3.local"
      [] name = "s3_bucket" -> "bucket"
      [] name = "s3_access_key_id" -> "key"
      [] name = "s3_secret_access_key" -> "secret"
\* a configuration with every parameter of every target set
AllSet == [name \in ParamNames |-> ParamValue(name)]
\* the trailing '.<file_type>' of a name, nothing without a file type
Suffix(ft) == IF ft = NoType THEN <<>> ELSE <<Word("."), Word(ft)>>

\* ch-backup-<base>-full[.<suffix>] and ch-backup-<base>-inc-<inc>[.<suffix>]
FullName(b, ft) ==
    <<Word("ch-backup-"), Stamp(b), Dash, Word("full")>> \o Suffix(ft)
IncName(b, i, ft) ==
    <<Word("ch-backup-"), Stamp(b), Dash, Word("inc"), Dash, Stamp(i)>>
        \o Suffix(ft)
\* a name that does not match the pattern (e.g. lost+found)
JunkName == <<Word("lost+found")>>
\* ch-backup-<base>-inc[.<suffix>]: kind inc, no incremental stamp
IncNoTsName(ft) ==
    <<Word("ch-backup-"), Stamp(1), Dash, Word("inc")>> \o Suffix(ft)

FullNames(ft) == {FullName(b, ft) : b \in Minutes}
IncNames(ft) ==
    UNION {{IncName(b, i, ft) : i \in (b + 1)..MaxTs} : b \in Minutes}
BadNames(ft) == {JunkName, IncNoTsName(ft)}
\* a full backup written with another file type: ch-backup-<base>-full.zip
OtherTypeNames == {FullName(1, "zip")}
AllNames(ft) ==
    FullNames(ft) \cup IncNames(ft) \cup BadNames(ft) \cup OtherTypeNames

\* 'inc' in <string>, for a string given by its tokens
ContainsInc(tokens) == \E k \in 1..Len(tokens) : tokens[k].word = "inc"

\* 'inc' in x, the sort key of the listing
IsIncName(name) == ContainsInc(name)

\* re.match(r'ch-backup-([\d_]+)-([^-]+)-?([\d_]+)?', name): group 2 is the
\* longest run without '-', group 3 is NoTs when it did not take part
MatchName(name) ==
    LET n == Len(name)
        NoMatch == [matched |-> FALSE, g1 |-> NoTs, g2 |-> <<>>, g3 |-> NoTs]
    IN IF ~(/\ n >= 4
            /\ name[1] = Word("ch-backup-")
            /\ IsStamp(name[2])
            /\ name[3] = Dash
            /\ name[4] # Dash)
       THEN NoMatch
       ELSE LET ends == {j \in 4..n : \A k \in 4..j : name[k] # Dash}
                e == CHOOSE j \in ends : \A k \in ends : k <= j
                next == IF e + 1 <= n /\ name[e + 1] = Dash THEN e + 2 ELSE e + 1
            IN [matched |-> TRUE,
                g1 |-> name[2].stamp,
                g2 |-> SubSeq(name, 4, e),
                g3 |-> IF next <= n /\ IsStamp(name[next])
                       THEN name[next].stamp
                       ELSE NoTs]

\* parse_file_name: err is the exception raised, "" when it returns
parse_file_name(name) ==
    LET match == MatchName(name)
        Raised(exc) == [err |-> exc, base_timestamp |-> NoTs, backup_type |-> <<>>,
                        has_inc |-> FALSE, inc_timestamp |-> NoTs]
    IN IF ~match.matched
       THEN Raised("ValueError")
       ELSE IF ContainsInc(match.g2)
       THEN IF match.g3 = NoTs
            \* parse_timestamp(None): strptime raises TypeError
            THEN Raised("TypeError")
            ELSE [err |-> "", base_timestamp |-> parse_timestamp(match.g1),
                  backup_type |-> match.g2, has_inc |-> TRUE,
                  inc_timestamp |-> parse_timestamp(match.g3)]
       ELSE [err |-> "", base_timestamp |-> parse_timestamp(match.g1),
             backup_type |-> match.g2, has_inc |-> FALSE,
             inc_timestamp |-> NoTs]

\* FullBackup.path / IncrementalBackup.path
FullPath(ts, ft) == FullName(format_timestamp(ts), ft)
IncPath(base, ts, ft) ==
    IncName(format_timestamp(base), format_timestamp(ts), ft)

Range(seq) == {seq[i] : i \in 1..Len(seq)}

\* ------------------------------------------------------------- chain map
MapPut(m, k, v) == [x \in (DOMAIN m) \cup {k} |-> IF x = k THEN v ELSE m[x]]
MapPop(m, k) == [x \in (DOMAIN m) \ {k} |-> m[x]]
EmptyMap == [x \in {} |-> <<>>]

RECURSIVE InsertSorted(_, _)
InsertSorted(s, x) ==
    IF s = <<>> THEN <<x>>
    ELSE IF x < Head(s) THEN <<x>> \o s
    ELSE <<Head(s)>> \o InsertSorted(Tail(s), x)

RECURSIVE SortByTimestamp(_)
\* list.sort(key=timestamp): stable, ascending
SortByTimestamp(s) ==
    IF s = <<>> THEN <<>>
    ELSE InsertSorted(SortByTimestamp(SubSeq(s, 1, Len(s) - 1)), s[Len(s)])

NoSortIncrementals(s) == s
\* full_backup.incremental_backups.sort(key=lambda x: x.timestamp)
SortIncrementals(s) == SortByTimestamp(s)

RECURSIVE SetToSortedSeq(_)
\* sorted(existing_backups.keys())
SetToSortedSeq(S) ==
    IF S = {} THEN <<>>
    ELSE LET m == CHOOSE x \in S : \A y \in S : x <= y
         IN <<m>> \o SetToSortedSeq(S \ {m})

MaxOf(S) == CHOOSE x \in S : \A y \in S : y <= x

\* ------------------------------------------------------------ environment
\* what backend.remove(name) does: delete, raise PermissionError, or raise
\* another exception (FileNotFoundError, OSError, a boto3 error)
RemoveOutcomes == {"ok", "PermissionError", "OtherError"}
\* status values of system.backups
Statuses == {"CREATING_BACKUP", "BACKUP_CREATED", "BACKUP_FAILED"}
\* a poll returns a row with a status, or no row
PollResults == Statuses \cup {"NO_ROW"}

\* datetime.now() of this run: after every minute stamp of the listing, not
\* on a minute boundary
Now == parse_timestamp(MaxTs + 1) + 1

VARIABLES
    pc,                \* position of the process
    exitCode,          \* -1 while running, then the exit code
    raised,            \* the exception that ended the run, "" for none
    backup_target,     \* backup.target of the configuration
    settings,          \* the target parameters of the configuration
    file_type,         \* file_type of main()
    call,              \* arguments of the last call of the command builder
    query,             \* the statement it built
    storage,           \* artifact names held by the storage backend
    listing,           \* backend.get_existing_backups() of this run
    pending,           \* names of the listing not yet processed
    existing_backups,  \* chain map: full timestamp -> incremental timestamps
    orphanRemoves,     \* backend.remove calls of reconstruction, per name
    command,           \* the command of this invocation, "none" before it runs
    force_full,        \* --force-full
    max_full_backups,  \* backup.max_full_backups
    max_incremental_backups,
    base_backup,       \* timestamp of the base chain, NoTs for None
    new_backup,        \* [kind, timestamp, base] of the backup to create
    chainsBefore,      \* keys of the chain map when the eviction guard is read
    cleanKeys,         \* sorted(existing_backups.keys()) still to visit
    cleanPending,      \* artifacts of the popped chain still to remove
    evicted,           \* timestamps popped by the eviction pass, in order
    evictRemoves,      \* backend.remove calls of the eviction pass, in order
    submitted,         \* BACKUP statements sent
    polls,             \* status polls issued
    initialStatus,     \* status of the row the submission returned
    status             \* last answer read for the submitted backup

vars == <<pc, exitCode, raised, backup_target, settings, file_type, call, query,
          storage, listing, pending, existing_backups, orphanRemoves,
          command, force_full, max_full_backups, max_incremental_backups,
          base_backup, new_backup, chainsBefore, cleanKeys, cleanPending, evicted,
          evictRemoves, submitted, polls, initialStatus, status>>

clientVars == <<backup_target, settings, file_type, call, query>>
reconVars == <<clientVars, storage, listing, pending, existing_backups, orphanRemoves>>
cmdVars == <<command, force_full, max_full_backups, max_incremental_backups,
             base_backup, new_backup>>
cleanVars == <<chainsBefore, cleanKeys, cleanPending, evicted, evictRemoves>>
dbVars == <<submitted, polls, initialStatus, status>>

NoBackup == [kind |-> "none", timestamp |-> NoTs, base |-> NoTs]

\* no call of the command builder yet
NoCall == [is_backup |-> FALSE, objects |-> {}, ignored_databases |-> <<>>,
           ignored_given |-> FALSE, backup |-> <<>>, base_backup |-> <<>>,
           overwrite |-> FALSE]

Init ==
    /\ pc = "parse"
    /\ exitCode = -1
    /\ raised = ""
    \* one target for each storage backend, completely configured
    /\ backup_target \in {"File", "S3"}
    /\ settings = AllSet
    /\ file_type = FileTypeOf(backup_target)
    /\ call = NoCall
    /\ query = <<>>
    /\ storage \in {S \in SUBSET AllNames(file_type) : Cardinality(S) <= MaxFiles}
    /\ listing = storage
    /\ pending = listing
    /\ existing_backups = EmptyMap
    /\ orphanRemoves = [n \in AllNames(file_type) |-> 0]
    /\ command = "none"
    /\ force_full = FALSE
    /\ max_full_backups = 0
    /\ max_incremental_backups = 0
    /\ base_backup = NoTs
    /\ new_backup = NoBackup
    /\ chainsBefore = {}
    /\ cleanKeys = <<>>
    /\ cleanPending = <<>>
    /\ evicted = <<>>
    /\ evictRemoves = <<>>
    /\ submitted = 0
    /\ polls = 0
    /\ initialStatus = "none"
    /\ status = "none"

\* the command returns or calls sys.exit(code)
Exit(code) == pc' = "exit" /\ exitCode' = code /\ raised' = raised

\* an exception ends the run: uncaught in main(), or caught by backup_command,
\* which logs it and calls sys.exit(1)
Raise(exc) == pc' = "exit" /\ exitCode' = 1 /\ raised' = exc

\* ================================================================ the client
\* Client.__init__: the exception raised, "" when the client is constructed.
\* Of the cases of the match statement only the first that matches the target
\* is executed.
ClientInitError(target, p, is_dir) ==
    IF target = "File"
    THEN IF p.backup_dir = Missing THEN "ValueError"
         ELSE IF ~is_dir THEN "FileNotFoundError"
         ELSE ""
    ELSE IF target \in {"Disk", "S3-Disk"}
    THEN IF p.disk = Missing THEN "ValueError" ELSE ""
    ELSE IF target \in {"S3", "S3-Disk"}
    THEN IF \/ p.s3_endpoint = Missing
            \/ p.s3_bucket = Missing
            \/ p.s3_access_key_id = Missing
            \/ p.s3_secret_access_key = Missing
         THEN "ValueError"
         ELSE ""
    ELSE ""

\* the S3-Disk target addressed like the S3 target
PathByBackend(target, p, file_path) ==
    CASE target = "File" ->
           <<Word("File('")>> \o file_path \o <<Word("')")>>
      [] target = "Disk" ->
           <<Word("Disk('"), Word(p.disk), Word("', '")>> \o file_path
               \o <<Word("')")>>
      [] target \in {"S3", "S3-Disk"} ->
           <<Word("S3('"), Word(p.s3_endpoint), Word("/"), Word(p.s3_bucket),
             Word("/")>> \o file_path
               \o <<Word("', '"), Word(p.s3_access_key_id), Word("', '"),
                    Word(p.s3_secret_access_key), Word("')")>>

\* Client._get_backup_path
_get_backup_path(target, p, file_path) ==
    CASE target = "File" ->
           <<Word("File('")>> \o file_path \o <<Word("')")>>
      [] target \in {"Disk", "S3-Disk"} ->
           <<Word("Disk('"), Word(p.disk), Word("', '")>> \o file_path
               \o <<Word("')")>>
      [] target = "S3" ->
           <<Word("S3('"), Word(p.s3_endpoint), Word("/"), Word(p.s3_bucket),
             Word("/")>> \o file_path
               \o <<Word("', '"), Word(p.s3_access_key_id), Word("', '"),
                    Word(p.s3_secret_access_key), Word("')")>>

\* ', '.join(parts), each part a sequence of tokens
RECURSIVE JoinComma(_)
JoinComma(parts) ==
    IF parts = <<>> THEN <<>>
    ELSE IF Len(parts) = 1 THEN parts[1]
    ELSE parts[1] \o <<Word(", ")>> \o JoinComma(Tail(parts))

\* the object arguments of the builder, in the order of its if/elif chain
ObjectKinds == <<"table", "dictionary", "database", "temporary_table", "view">>
ObjectKeyword(kind) ==
    CASE kind = "table" -> "TABLE "
      [] kind = "dictionary" -> "DICTIONARY "
      [] kind = "database" -> "DATABASE "
      [] kind = "temporary_table" -> "TEMPORARY TABLE "
      [] kind = "view" -> "VIEW "

\* ['system', 'information_schema', 'INFORMATION_SCHEMA']
DefaultIgnored ==
    << <<Word("system")>>, <<Word("information_schema")>>,
       <<Word("INFORMATION_SCHEMA")>> >>

\* the SETTINGS keyword in front of every setting
ClausePerSetting(parts) ==
    IF Len(parts) > 0
    THEN JoinComma([k \in 1..Len(parts) |-> <<Word("SETTINGS ")>> \o parts[k]])
    ELSE <<>>

\* if len(settings) > 0: query += 'SETTINGS ' + ', '.join(settings)
SettingsClause(parts) ==
    IF Len(parts) > 0
    THEN <<Word("SETTINGS ")>> \o JoinComma(parts)
    ELSE <<>>

\* Client._backup_command with the arguments a: err is the exception raised,
\* "" when the statement is returned
_backup_command(target, p, a) ==
    LET \* x or default: None and the empty list both give the default
        ignored_databases == IF a.ignored_databases = <<>>
                             THEN DefaultIgnored
                             ELSE a.ignored_databases
        given == {k \in 1..Len(ObjectKinds) : ObjectKinds[k] \in a.objects}
        first == IF given = {} THEN 0
                 ELSE CHOOSE k \in given : \A j \in given : k <= j
        scope == IF first # 0
                 THEN <<Word(ObjectKeyword(ObjectKinds[first])), Word("db.name"),
                        Word(" ")>>
                 ELSE <<Word("ALL EXCEPT DATABASES ")>>
                          \o JoinComma(ignored_databases) \o <<Word(" ")>>
        parts == (IF a.base_backup # <<>>
                  THEN << <<Word("base_backup=")>>
                             \o _get_backup_path(target, p, a.base_backup) >>
                  ELSE <<>>)
                 \o (IF a.overwrite
                     THEN << <<Word("allow_non_empty_tables=true")>> >>
                     ELSE <<>>)
    IN IF first = 0 /\ Len(ignored_databases) = 0
       THEN [err |-> "ValueError", query |-> <<>>]
       ELSE [err |-> "",
             query |-> <<Word(IF a.is_backup THEN "BACKUP " ELSE "RESTORE ")>>
                       \o scope
                       \o <<Word(IF a.is_backup THEN "TO" ELSE "FROM"), Word(" ")>>
                       \o _get_backup_path(target, p, a.backup) \o <<Word(" ")>>
                       \o SettingsClause(parts)]

\* ------------------------------------------------- parse_existing_backups
\* for file in sorted(listing, key=lambda x: 'inc' in x): the listing comes in
\* any order, the stable sort puts every name without 'inc' first
NextFileUnsorted(file) == file \in pending

NextFile(file) ==
    /\ file \in pending
    /\ IsIncName(file) => \A g \in pending : IsIncName(g)

\* parse_file_name raises ValueError: the name is skipped
ParseInvalid ==
    /\ pc = "parse"
    /\ \E file \in pending :
         /\ NextFile(file)
         /\ parse_file_name(file).err = "ValueError"
         /\ pending' = pending \ {file}
    /\ UNCHANGED <<pc, exitCode, raised, storage, clientVars, listing, existing_backups,
                   orphanRemoves, cmdVars, cleanVars, dbVars>>

\* parse_file_name raises something else: nothing catches it
ParseRaise ==
    /\ pc = "parse"
    /\ \E file \in pending :
         /\ NextFile(file)
         /\ parse_file_name(file).err \notin {"", "ValueError"}
         /\ pending' = pending \ {file}
         /\ Raise(parse_file_name(file).err)
    /\ UNCHANGED <<storage, clientVars, listing, existing_backups, orphanRemoves,
                   cmdVars, cleanVars, dbVars>>

\* a full backup: backups[base_timestamp] = FullBackup(...)
ParseFull ==
    /\ pc = "parse"
    /\ \E file \in pending :
         LET data == parse_file_name(file) IN
         /\ NextFile(file)
         /\ data.err = ""
         /\ ~data.has_inc
         /\ pending' = pending \ {file}
         /\ existing_backups' = MapPut(existing_backups, data.base_timestamp, <<>>)
    /\ UNCHANGED <<pc, exitCode, raised, storage, clientVars, listing, orphanRemoves,
                   cmdVars, cleanVars, dbVars>>

\* an incremental whose base is in the map: append, then sort
ParseIncremental ==
    /\ pc = "parse"
    /\ \E file \in pending :
         LET data == parse_file_name(file) IN
         /\ NextFile(file)
         /\ data.err = ""
         /\ data.has_inc
         /\ data.base_timestamp \in DOMAIN existing_backups
         /\ pending' = pending \ {file}
         /\ existing_backups' =
              [existing_backups EXCEPT ![data.base_timestamp] =
                  SortIncrementals(Append(@, data.inc_timestamp))]
    /\ UNCHANGED <<pc, exitCode, raised, storage, clientVars, listing, orphanRemoves,
                   cmdVars, cleanVars, dbVars>>

\* an incremental whose base is missing: backend.remove(file), only
\* PermissionError is caught
ParseOrphan ==
    /\ pc = "parse"
    /\ \E file \in pending, outcome \in RemoveOutcomes :
         LET data == parse_file_name(file) IN
         /\ NextFile(file)
         /\ data.err = ""
         /\ data.has_inc
         /\ data.base_timestamp \notin DOMAIN existing_backups
         /\ pending' = pending \ {file}
         /\ orphanRemoves' = [orphanRemoves EXCEPT ![file] = @ + 1]
         /\ storage' = IF outcome = "ok" THEN storage \ {file} ELSE storage
         /\ IF outcome = "OtherError"
            THEN Raise(outcome)
            ELSE UNCHANGED <<pc, exitCode, raised>>
    /\ UNCHANGED <<clientVars, listing, existing_backups, cmdVars, cleanVars, dbVars>>

\* return backups
ParseReturn ==
    /\ pc = "parse"
    /\ pending = {}
    /\ pc' = "command"
    /\ UNCHANGED <<exitCode, raised, reconVars, cmdVars, cleanVars, dbVars>>

\* ----------------------------------------------------------- backup_command
\* values of backup.max_full_backups and backup.max_incremental_backups
FullLimits == 0..MaxTs
IncLimits == 0..MaxTs

\* the newest chain also when it already holds max_inc incrementals
BaseUpToLimit(backups, max_inc) ==
    IF Cardinality(DOMAIN backups) = 0 THEN NoTs
    ELSE LET newest_full_backup == MaxOf(DOMAIN backups)
         IN IF Len(backups[newest_full_backup]) <= max_inc
            THEN newest_full_backup
            ELSE NoTs

get_base_backup(backups, max_inc) ==
    IF Cardinality(DOMAIN backups) = 0 THEN NoTs
    ELSE LET newest_full_backup == MaxOf(DOMAIN backups)
         IN IF Len(backups[newest_full_backup]) < max_inc
            THEN newest_full_backup
            ELSE NoTs

\* the artifacts removed for a popped chain: its incrementals, then itself
RECURSIVE IncPaths(_, _, _)
IncPaths(ts, incs, ft) ==
    IF incs = <<>> THEN <<>>
    ELSE <<IncPath(ts, Head(incs), ft)>> \o IncPaths(ts, Tail(incs), ft)

\* the full backup first, its incrementals after it
FullFirstRemovals(ts, incs, ft) == <<FullPath(ts, ft)>> \o IncPaths(ts, incs, ft)

\* for inc in x.incremental_backups: backend.remove(inc); backend.remove(x)
ChainRemovals(ts, incs, ft) == IncPaths(ts, incs, ft) \o <<FullPath(ts, ft)>>

AlwaysEntersCleanup(backups) == TRUE

\* if len(args.existing_backups) > 1: we never delete the only chain
EntersCleanup(backups) == Cardinality(DOMAIN backups) > 1

\* if max_full_backups == 0: return
SkipsCleanup(max_full) == max_full = 0

\* lines 194-211: choose the base, create the new backup object, and enter
\* the eviction pass when more than one chain exists
BackupCommand ==
    /\ pc = "command"
    /\ \E ff \in BOOLEAN, mf \in FullLimits, mi \in IncLimits :
         LET base == IF ff THEN NoTs ELSE get_base_backup(existing_backups, mi)
         IN
         /\ command' = "backup"
         /\ force_full' = ff
         /\ max_full_backups' = mf
         /\ max_incremental_backups' = mi
         /\ base_backup' = base
         /\ IF base # NoTs
            THEN /\ new_backup' = [kind |-> "inc", timestamp |-> Now, base |-> base]
                 \* new_incremental_backup appends to the base's list
                 /\ existing_backups' =
                       [existing_backups EXCEPT ![base] = Append(@, Now)]
            ELSE /\ new_backup' = [kind |-> "full", timestamp |-> Now, base |-> NoTs]
                 /\ UNCHANGED existing_backups
         /\ chainsBefore' = DOMAIN existing_backups
         /\ IF EntersCleanup(existing_backups) /\ ~SkipsCleanup(mf)
            THEN /\ pc' = "clean"
                 /\ cleanKeys' = SetToSortedSeq(DOMAIN existing_backups)
            ELSE /\ pc' = "submit"
                 /\ UNCHANGED cleanKeys
    /\ UNCHANGED <<exitCode, raised, storage, clientVars, listing, pending, orphanRemoves,
                   cleanPending, evicted, evictRemoves, dbVars>>

\* list_command: prints the chains; sys.exit(1) when there is none
ListCommand ==
    /\ pc = "command"
    /\ command' = "list"
    /\ Exit(IF Cardinality(DOMAIN existing_backups) = 0 THEN 1 ELSE 0)
    /\ UNCHANGED <<reconVars, force_full, max_full_backups,
                   max_incremental_backups, base_backup, new_backup, cleanVars,
                   dbVars>>

\* the paths of the entities of the chain map, each with the path of its base
\* backup (the empty path for a full backup)
RestoreChoices(backups, ft) ==
    {[backup |-> FullPath(k, ft), base_backup |-> <<>>] : k \in DOMAIN backups}
    \cup UNION {{[backup |-> IncPath(k, backups[k][j], ft),
                  base_backup |-> FullPath(k, ft)]
                 : j \in 1..Len(backups[k])} : k \in DOMAIN backups}

\* restore_command with a name that matches no entity: the list is printed
\* and the command calls sys.exit(1)
RestoreNoMatch ==
    /\ pc = "command"
    /\ command' = "restore"
    /\ Exit(1)
    /\ UNCHANGED <<reconVars, force_full, max_full_backups,
                   max_incremental_backups, base_backup, new_backup, cleanVars,
                   dbVars>>

\* restore_command with the name of an entity: the statements are built by
\* Client.restore and printed, none is executed; call and query keep the last
\* one, the restore of a table
RestoreCommand ==
    /\ pc = "command"
    /\ \E choice \in RestoreChoices(existing_backups, file_type) :
         LET a == [is_backup |-> FALSE, objects |-> {"table"},
                   ignored_databases |-> <<>>, ignored_given |-> FALSE,
                   backup |-> choice.backup, base_backup |-> choice.base_backup,
                   overwrite |-> FALSE]
         IN /\ call' = a
            /\ query' = _backup_command(backup_target, settings, a).query
    /\ command' = "restore"
    /\ Exit(0)
    /\ UNCHANGED <<backup_target, settings, file_type, storage, listing, pending,
                   existing_backups, orphanRemoves, force_full, max_full_backups,
                   max_incremental_backups, base_backup, new_backup, cleanVars,
                   dbVars>>

\* ---------------------------------------------------------- clean_old_backups
\* break as soon as the count is within the limit, whatever comes next
LoopStopsWithinLimit(n, max_full, next_kind) == n <= max_full

\* break only below the limit, whatever comes next
LoopStopsBelowLimit(n, max_full, next_kind) == n < max_full

\* the body of the loop breaks (lines 117-122)
LoopStops(n, max_full, next_kind) ==
    \/ n = max_full /\ next_kind = "inc"
    \/ n # max_full /\ n < max_full

CleanBreak ==
    /\ pc = "clean"
    /\ cleanPending = <<>>
    /\ \/ cleanKeys = <<>>
       \/ LoopStops(Cardinality(DOMAIN existing_backups), max_full_backups,
                    new_backup.kind)
    /\ pc' = "submit"
    /\ UNCHANGED <<exitCode, raised, reconVars, cmdVars, cleanVars, dbVars>>

\* x = existing_backups.pop(timestamp)
CleanPop ==
    /\ pc = "clean"
    /\ cleanPending = <<>>
    /\ cleanKeys # <<>>
    /\ ~LoopStops(Cardinality(DOMAIN existing_backups), max_full_backups,
                  new_backup.kind)
    /\ LET timestamp == Head(cleanKeys) IN
         /\ existing_backups' = MapPop(existing_backups, timestamp)
         /\ evicted' = Append(evicted, timestamp)
         /\ cleanPending' = ChainRemovals(timestamp, existing_backups[timestamp],
                                          file_type)
         /\ cleanKeys' = Tail(cleanKeys)
    /\ UNCHANGED <<pc, exitCode, raised, storage, clientVars, listing, pending, orphanRemoves,
                   cmdVars, chainsBefore, evictRemoves, dbVars>>

\* backend.remove(path): os.remove of DiskBackend raises for a path that is
\* not in the directory, the filtered delete of S3Backend then deletes nothing
RemoveCanGive(outcome, path, files, ft) ==
    (outcome = "ok" /\ ft # NoType) => path \in files

\* the error is logged and the command goes on to the backup
CleanupErrorLogged(exc) ==
    pc' = "submit" /\ exitCode' = exitCode /\ raised' = exc

\* except Exception as e: logger.error(...); sys.exit(1)
CleanupFailed(exc) == Raise(exc)

\* backend.remove(inc) / backend.remove(x): an exception leaves
\* clean_old_backups and backup_command exits with code 1
CleanRemove ==
    /\ pc = "clean"
    /\ cleanPending # <<>>
    /\ \E outcome \in RemoveOutcomes :
         /\ RemoveCanGive(outcome, Head(cleanPending), storage, file_type)
         /\ evictRemoves' = Append(evictRemoves, Head(cleanPending))
         /\ IF outcome = "ok"
            THEN /\ storage' = storage \ {Head(cleanPending)}
                 /\ cleanPending' = Tail(cleanPending)
                 /\ UNCHANGED <<pc, exitCode, raised>>
            ELSE /\ CleanupFailed(outcome)
                 /\ UNCHANGED <<storage, cleanPending>>
    /\ UNCHANGED <<clientVars, listing, pending, existing_backups, orphanRemoves, cmdVars,
                   chainsBefore, cleanKeys, evicted, dbVars>>

\* --------------------------------------------------------------- Client.backup
NewBackupPath ==
    IF new_backup.kind = "inc"
    THEN IncPath(new_backup.base, new_backup.timestamp, file_type)
    ELSE FullPath(new_backup.timestamp, file_type)

\* self.client.execute(query + " ASYNC") raises (connection or server error)
SubmitRaises ==
    /\ pc = "submit"
    /\ submitted' = submitted + 1
    /\ Raise("ServerError")
    /\ UNCHANGED <<reconVars, cmdVars, cleanVars, polls, initialStatus, status>>

RejectedOnlyWhenFailed(s) == s = "BACKUP_FAILED"

\* if status != 'CREATING_BACKUP': raise RuntimeError
SubmissionRejected(s) == s # "CREATING_BACKUP"

\* the row (backup_id, status) comes back
Submit ==
    /\ pc = "submit"
    /\ \E s \in Statuses :
         /\ submitted' = submitted + 1
         /\ initialStatus' = s
         /\ status' = s
         /\ IF SubmissionRejected(s)
            THEN Raise("RuntimeError")
            ELSE pc' = "poll" /\ UNCHANGED <<exitCode, raised>>
    /\ UNCHANGED <<reconVars, cmdVars, cleanVars, polls>>

\* an empty answer read as a backup that is still being created
NoRowIsCreating(r) ==
    [err |-> "", status |-> IF r = "NO_ROW" THEN "CREATING_BACKUP" ELSE r]

\* get_backup_status: r is the answer of system.backups for the id, "NO_ROW"
\* when it has no row; err is the exception raised, "" when it returns
get_backup_status(r) ==
    IF r = "NO_ROW"
    THEN [err |-> "RuntimeError", status |-> ""]
    ELSE [err |-> "", status |-> r]

\* the loop is left after every poll, whatever the status
NeverCreating(s) == FALSE

\* if status == 'CREATING_BACKUP': sleep and continue
StillCreating(s) == s = "CREATING_BACKUP"

\* get_backup_status raises: the poll loop is left by the exception
PollNoRow ==
    /\ pc = "poll"
    /\ \E r \in PollResults :
         /\ get_backup_status(r).err # ""
         /\ polls' = polls + 1
         /\ status' = r
         /\ Raise(get_backup_status(r).err)
    /\ UNCHANGED <<reconVars, cmdVars, cleanVars, submitted, initialStatus>>

\* status == 'CREATING_BACKUP': sleep and poll again
PollCreating ==
    /\ pc = "poll"
    /\ polls < MaxPolls
    /\ \E r \in PollResults :
         /\ get_backup_status(r).err = ""
         /\ StillCreating(get_backup_status(r).status)
         /\ polls' = polls + 1
         /\ status' = r
    /\ UNCHANGED <<pc, exitCode, raised, reconVars, cmdVars, cleanVars, submitted,
                   initialStatus>>

\* backup() returned: lines 222-224 of backup_command
BackupReturned(backups) ==
    IF new_backup.kind = "full"
    THEN MapPut(backups, new_backup.timestamp, <<>>)
    ELSE backups

\* any other status: log, break, return result
PollTerminal ==
    /\ pc = "poll"
    /\ \E r \in PollResults :
         /\ get_backup_status(r).err = ""
         /\ ~StillCreating(get_backup_status(r).status)
         /\ polls' = polls + 1
         /\ status' = r
         /\ storage' = IF r = "BACKUP_CREATED"
                       THEN storage \cup {NewBackupPath}
                       ELSE storage
    /\ existing_backups' = BackupReturned(existing_backups)
    /\ Exit(0)
    /\ UNCHANGED <<clientVars, listing, pending, orphanRemoves, cmdVars, cleanVars,
                   submitted, initialStatus>>

Next ==
    \/ ParseInvalid
    \/ ParseRaise
    \/ ParseFull
    \/ ParseIncremental
    \/ ParseOrphan
    \/ ParseReturn
    \/ BackupCommand
    \/ ListCommand
    \/ RestoreNoMatch
    \/ RestoreCommand
    \/ CleanBreak
    \/ CleanPop
    \/ CleanRemove
    \/ SubmitRaises
    \/ Submit
    \/ PollNoRow
    \/ PollCreating
    \/ PollTerminal

Spec == Init /\ [][Next]_vars

\* ------------------------------------------------- the client's commands
\* the object arguments of one call: at most two of them given
ObjectChoices == {o \in SUBSET Range(ObjectKinds) : Cardinality(o) <= 2}

\* ignored_databases of one call: None, [] or ['test']
IgnoredChoices ==
    {[given |-> FALSE, names |-> <<>>],
     [given |-> TRUE, names |-> <<>>],
     [given |-> TRUE, names |-> << <<Word("test")>> >>]}

\* the backup of one call: a full backup or an incremental of it
BackupChoices(ft) ==
    {FullPath(parse_timestamp(1), ft),
     IncPath(parse_timestamp(1), parse_timestamp(2), ft)}

\* base_backup of one call: None (the empty path) or the full backup
BaseChoices(ft) == {<<>>, FullPath(parse_timestamp(1), ft)}

\* main() up to the construction of the client, with any target and any subset
\* of the target parameters set
ClientInit ==
    /\ pc = "construct"
    /\ exitCode = -1
    /\ raised = ""
    /\ backup_target \in BackupTargets
    /\ settings \in {[name \in ParamNames |->
                         IF name \in given THEN ParamValue(name) ELSE Missing]
                     : given \in SUBSET ParamNames}
    /\ file_type = FileTypeOf(backup_target)
    /\ call = NoCall
    /\ query = <<>>
    /\ storage = {}
    /\ listing = {}
    /\ pending = {}
    /\ existing_backups = EmptyMap
    /\ orphanRemoves = [n \in AllNames(file_type) |-> 0]
    /\ command = "none"
    /\ force_full = FALSE
    /\ max_full_backups = 0
    /\ max_incremental_backups = 0
    /\ base_backup = NoTs
    /\ new_backup = NoBackup
    /\ chainsBefore = {}
    /\ cleanKeys = <<>>
    /\ cleanPending = <<>>
    /\ evicted = <<>>
    /\ evictRemoves = <<>>
    /\ submitted = 0
    /\ polls = 0
    /\ initialStatus = "none"
    /\ status = "none"

runVars == <<storage, listing, pending, existing_backups, orphanRemoves,
             cmdVars, cleanVars, dbVars>>

\* ch = Client(...): an exception is logged and main() calls sys.exit(1)
Construct ==
    /\ pc = "construct"
    /\ \E is_dir \in BOOLEAN :
         LET err == ClientInitError(backup_target, settings, is_dir)
         IN IF err # ""
            THEN Raise(err)
            ELSE pc' = "ready" /\ UNCHANGED <<exitCode, raised>>
    /\ UNCHANGED <<clientVars, runVars>>

\* the builder is called with the arguments a
Build(a) ==
    LET built == _backup_command(backup_target, settings, a)
    IN /\ call' = a
       /\ IF built.err # ""
          THEN Raise(built.err) /\ UNCHANGED query
          ELSE /\ query' = built.query
               /\ pc' = "built"
               /\ UNCHANGED <<exitCode, raised>>
       /\ UNCHANGED <<backup_target, settings, file_type, runVars>>

\* Client.backup builds its statement
BuildBackup ==
    /\ pc = "ready"
    /\ \E objects \in ObjectChoices, ignored \in IgnoredChoices,
          backup \in BackupChoices(file_type), base \in BaseChoices(file_type) :
         Build([is_backup |-> TRUE, objects |-> objects,
                ignored_databases |-> ignored.names,
                ignored_given |-> ignored.given,
                backup |-> backup, base_backup |-> base, overwrite |-> FALSE])

\* Client.restore builds its statement
BuildRestore ==
    /\ pc = "ready"
    /\ \E objects \in ObjectChoices, ignored \in IgnoredChoices,
          backup \in BackupChoices(file_type), base \in BaseChoices(file_type),
          overwrite \in BOOLEAN :
         Build([is_backup |-> FALSE, objects |-> objects,
                ignored_databases |-> ignored.names,
                ignored_given |-> ignored.given,
                backup |-> backup, base_backup |-> base,
                overwrite |-> overwrite])

ClientNext ==
    \/ Construct
    \/ BuildBackup
    \/ BuildRestore

ClientSpec == ClientInit /\ [][ClientNext]_vars

\* ================================================================ claims
\* the full artifacts, of any file type, among the names S for minute stamp b
FullsOf(S, b) ==
    {n \in S : Len(n) >= 4 /\ n[1] = Word("ch-backup-") /\ n[2] = Stamp(b)
                 /\ n[3] = Dash /\ n[4] = Word("full")}

Ascending(seq) == \A i \in 1..(Len(seq) - 1) : seq[i] < seq[i + 1]

\* the listing is one full backup and incrementals that all reference it
OneChainListing(b) ==
    /\ FullName(b, file_type) \in listing
    /\ listing \ {FullName(b, file_type)}
          \subseteq {IncName(b, i, file_type) : i \in Minutes}

\* C1: for a listing of one full backup and N incrementals of it, taken in
\* any order, parse_existing_backups returns one chain whose incremental list
\* has exactly the N timestamps of the listing in ascending order
C1_OneChainSorted ==
    \A b \in Minutes :
        \* reconstruction does not end the run
        /\ (pc = "exit" /\ command = "none") => ~OneChainListing(b)
        /\ (pc = "command" /\ OneChainListing(b)) =>
              /\ DOMAIN existing_backups = {parse_timestamp(b)}
              /\ LET incs == existing_backups[parse_timestamp(b)] IN
                    /\ Len(incs) = Cardinality(listing) - 1
                    /\ Ascending(incs)
                    /\ Range(incs) =
                          {parse_timestamp(i) : i \in
                             {j \in Minutes : IncName(b, j, file_type) \in listing}}

C1_Witness ==
    /\ pc = "command"
    /\ \E b \in Minutes :
          /\ OneChainListing(b)
          /\ Len(existing_backups[parse_timestamp(b)]) >= 2

\* an incremental name of the listing whose base is no full name of it
IsOrphan(n) ==
    /\ n \in listing
    /\ Len(n) >= 6
    /\ n[4] = Word("inc")
    /\ IsStamp(n[6])
    /\ FullsOf(listing, n[2].stamp) = {}

\* C2: once reconstruction has processed it, an incremental of the listing
\* whose base timestamp is no full backup of the listing has had backend.remove
\* called exactly once (in no other way during the run) and is in no chain;
\* reconstruction calls backend.remove for no other name
C2_OrphanRemovedOnce ==
    /\ \A n \in listing \ pending :
          IsOrphan(n) =>
             /\ orphanRemoves[n] = 1
             /\ n \notin Range(evictRemoves)
             /\ \A k \in DOMAIN existing_backups :
                   \A t \in Range(existing_backups[k]) :
                       n # IncPath(k, t, file_type)
    \* and no deletion is issued for any other name
    /\ \A n \in DOMAIN orphanRemoves :
          orphanRemoves[n] # 0 => (n \in listing \ pending /\ IsOrphan(n))

C2_Witness ==
    /\ pc = "command"
    /\ \E n \in DOMAIN orphanRemoves : IsOrphan(n) /\ orphanRemoves[n] = 1
    /\ \E k \in DOMAIN existing_backups : existing_backups[k] # <<>>

\* the eviction pass of the run is over and no deletion raised
PassDone == pc \in {"submit", "poll"} \/ (pc = "exit" /\ submitted > 0)
ChainsBefore == SetToSortedSeq(chainsBefore)

\* chains at T1 < T2 < T3 and max_full_backups = 2
ThreeChainsLimitTwo == Cardinality(chainsBefore) = 3 /\ max_full_backups = 2

\* C3 as stated: with chains at T1 < T2 < T3, max_full_backups = 2 and a full
\* backup next, the eviction pass evicts exactly [T1]
C3_Original ==
    (PassDone /\ ThreeChainsLimitTwo /\ new_backup.kind = "full")
        => evicted = <<ChainsBefore[1]>>

\* C3 amended: with chains at T1 < T2 < T3, max_full_backups = 2 and a full
\* backup next, the eviction pass evicts exactly [T1, T2]
C3_EvictsTwoOldest ==
    (PassDone /\ ThreeChainsLimitTwo /\ new_backup.kind = "full")
        => /\ evicted = <<ChainsBefore[1], ChainsBefore[2]>>
           /\ DOMAIN existing_backups \cap chainsBefore = {ChainsBefore[3]}

C3_Witness ==
    /\ PassDone /\ ThreeChainsLimitTwo /\ new_backup.kind = "full"
    /\ Len(evicted) = 2

\* C4 as stated: with chains at T1 < T2 < T3, max_full_backups = 2 and an
\* incremental backup next, the eviction pass evicts nothing
C4_Original ==
    (PassDone /\ ThreeChainsLimitTwo /\ new_backup.kind = "inc")
        => evicted = <<>>

\* C4 amended: with chains at T1 < T2 < T3, max_full_backups = 2 and an
\* incremental backup next, the eviction pass evicts exactly [T1]
C4_EvictsOldest ==
    (PassDone /\ ThreeChainsLimitTwo /\ new_backup.kind = "inc")
        => /\ evicted = <<ChainsBefore[1]>>
           /\ DOMAIN existing_backups = {ChainsBefore[2], ChainsBefore[3]}

C4_Witness ==
    /\ PassDone /\ ThreeChainsLimitTwo /\ new_backup.kind = "inc"
    /\ Len(evicted) = 1
    /\ base_backup = ChainsBefore[3]

\* the finished pass evicted exactly the oldest chain if the next backup is
\* full, and nothing if it is incremental
OldestOnlyIfFull ==
    IF new_backup.kind = "full"
    THEN /\ Len(evicted) = 1
         /\ chainsBefore # {}
         /\ evicted[1] = ChainsBefore[1]
         /\ DOMAIN existing_backups \cap chainsBefore
               = chainsBefore \ {ChainsBefore[1]}
         /\ FullPath(ChainsBefore[1], file_type) \notin storage
         /\ evictRemoves # <<>>
         /\ evictRemoves[Len(evictRemoves)] = FullPath(ChainsBefore[1], file_type)
    ELSE /\ evicted = <<>>
         /\ evictRemoves = <<>>
         /\ chainsBefore = DOMAIN existing_backups

\* C5 as stated: with exactly max_full_backups chains (at least one), the
\* eviction pass of a backup run evicts exactly the oldest chain if the next
\* backup is full, and no chain if it is incremental
C5_Original ==
    (PassDone /\ Cardinality(chainsBefore) = max_full_backups
              /\ chainsBefore # {})
        => OldestOnlyIfFull

\* C5 amended: with exactly max_full_backups chains and more than one chain,
\* the eviction pass of a backup run evicts exactly the oldest chain if the
\* next backup is full, and no chain if it is incremental
C5_AtLimit ==
    (PassDone /\ Cardinality(chainsBefore) = max_full_backups
              /\ Cardinality(chainsBefore) > 1)
        => OldestOnlyIfFull

C5_Witness ==
    /\ PassDone
    /\ Cardinality(chainsBefore) = max_full_backups
    /\ Cardinality(chainsBefore) > 1
    /\ new_backup.kind = "full"
    /\ Len(evicted) = 1
    /\ Len(evictRemoves) >= 2

\* C6: with max_full_backups = 0 or at most one chain, the run removes no
\* chain from the chain map and calls backend.remove for no artifact in its
\* eviction pass, whatever the chain map holds and whatever backup is next
C6_NoEviction ==
    (pc \notin {"parse", "command"}
       /\ (max_full_backups = 0 \/ Cardinality(chainsBefore) <= 1))
        => /\ evicted = <<>>
           /\ evictRemoves = <<>>
           /\ chainsBefore \subseteq DOMAIN existing_backups
           /\ pc # "clean"

C6_Witness ==
    /\ pc = "exit" /\ exitCode = 0
    /\ max_full_backups = 1
    /\ Cardinality(chainsBefore) = 1
    /\ new_backup.kind = "full"
    /\ evicted = <<>>

\* C7: when the run has ended, every artifact of every chain popped by the
\* eviction pass has had its deletion attempted, also after a deletion raised
C7_AllDeletionsAttempted ==
    pc = "exit" => Range(cleanPending) \subseteq Range(evictRemoves)

\* C8: a run whose status poll returned a status other than CREATING_BACKUP
\* and BACKUP_CREATED does not end with exit code 0
C8_FailedStatusFailsRun ==
    (pc = "exit" /\ polls > 0
       /\ status \notin {"CREATING_BACKUP", "BACKUP_CREATED"})
        => exitCode # 0

\* C9: the new FullBackup is a key of the chain map only if its backup
\* reached BACKUP_CREATED
C9_InsertedOnlyOnSuccess ==
    (new_backup.kind = "full" /\ new_backup.timestamp \in DOMAIN existing_backups)
        => status = "BACKUP_CREATED"

\* C10: when the row returned by the submission carries a status other than
\* CREATING_BACKUP, no status poll is issued and the run has ended with exit
\* code 1 (and without the new backup in the chain map)
C10_RejectedSubmission ==
    initialStatus \notin {"none", "CREATING_BACKUP"}
        => /\ polls = 0
           /\ pc = "exit"
           /\ exitCode = 1
           /\ new_backup.timestamp \notin DOMAIN existing_backups

C10_Witness ==
    /\ initialStatus = "BACKUP_CREATED"
    /\ pc = "exit"
    /\ submitted = 1

\* C11: a status poll that finds no row for the backup id is a hard failure:
\* the poll raises RuntimeError, the run ends with exit code 1, and no poll is
\* issued after it.
C11_NoRowIsFatal ==
    /\ [](status = "NO_ROW" =>
            pc = "exit" /\ exitCode = 1 /\ raised = "RuntimeError")
    /\ [][status = "NO_ROW" => polls' = polls]_vars

\* a second poll, after one that read CREATING_BACKUP, found no row
C11_Witness ==
    /\ status = "NO_ROW"
    /\ polls = 2
    /\ raised = "RuntimeError"

\* C12: without --force-full, the base of the next backup is none when the
\* chain map is empty; otherwise it is the newest chain exactly when that chain
\* holds fewer than max_incremental_backups incrementals, and none if not. It
\* is never a chain other than the newest.
C12_BaseIsNewestBelowLimit ==
    [][(pc = "command" /\ ~force_full') =>
         LET chains == DOMAIN existing_backups
         IN /\ chains = {} => base_backup' = NoTs
            /\ \A newest \in chains :
                  (\A k \in chains : k <= newest) =>
                     /\ Len(existing_backups[newest]) < max_incremental_backups'
                           => base_backup' = newest
                     /\ Len(existing_backups[newest]) >= max_incremental_backups'
                           => base_backup' = NoTs
            /\ \A k \in chains :
                  (\E j \in chains : j > k) => base_backup' # k]_vars

\* two chains, and the newer one, which has an incremental, was chosen as base
C12_Witness ==
    /\ pc # "command" /\ pc # "parse"
    /\ ~force_full
    /\ Cardinality(chainsBefore) = 2
    /\ base_backup = MaxOf(chainsBefore)
    /\ Len(existing_backups[base_backup]) = 2
    /\ evicted = <<>>

\* the incremental artifacts of the chain at timestamp ts
IncrementalsOf(ts) ==
    {IncName(format_timestamp(ts), i, file_type) : i \in Minutes}

\* C20: for every evicted chain the deletions of its incrementals are issued
\* before the deletion of its full backup, so at every point of the pass, also
\* after a deletion failed, storage holds no incremental of an evicted chain
\* whose full artifact is already deleted.
C20_IncrementalsBeforeFull ==
    \A ts \in Range(evicted) :
        /\ \A j, k \in 1..Len(evictRemoves) :
              (evictRemoves[j] = FullPath(ts, file_type)
                 /\ evictRemoves[k] \in IncrementalsOf(ts)) => k < j
        /\ FullsOf(storage, format_timestamp(ts)) = {}
              => IncrementalsOf(ts) \cap storage = {}

\* the incremental of an evicted chain was deleted, then the deletion of its
\* full backup failed and ended the pass
C20_Witness ==
    /\ pc = "exit"
    /\ raised = "PermissionError"
    /\ Len(evicted) = 1
    /\ Len(evictRemoves) = 2
    /\ evictRemoves[1] \in IncrementalsOf(evicted[1]) \ storage
    /\ evictRemoves[2] = FullPath(evicted[1], file_type)
    /\ evictRemoves[2] \in storage

\* C14: a name that does not conform to the artifact pattern, including one
\* of kind inc without an incremental timestamp, never makes reconstruction
\* fail: once processed it is still in storage, no deletion was issued for it
\* and no exception of the decoder ended the run.
C14_NonConformingSkipped ==
    \A n \in (BadNames(file_type) \cap listing) \ pending :
        /\ n \in storage
        /\ orphanRemoves[n] = 0
        /\ raised \notin {"ValueError", "TypeError"}

\* C15: a failed deletion of an orphan, whatever the delete raised, does not
\* make reconstruction fail: no exception of backend.remove ends the run before
\* the command starts.
C15_OrphanFailureTolerated ==
    ~(/\ pc = "exit"
      /\ new_backup = NoBackup
      /\ raised \in RemoveOutcomes \ {"ok"})

\* a timestamp at the resolution of TIMESTAMP_FORMAT
MinuteOf(t) == parse_timestamp(format_timestamp(t))

\* decoding the path of a full backup at ts gives back kind full and ts
FullRoundTrip(ts) ==
    LET data == parse_file_name(FullPath(ts, file_type))
    IN /\ data.err = ""
       /\ data.backup_type = <<Word("full")>>
       /\ data.base_timestamp = MinuteOf(ts)
       /\ ~data.has_inc

\* decoding the path of an incremental at ts of the chain at base gives back
\* kind inc and both timestamps
IncRoundTrip(base, ts) ==
    LET data == parse_file_name(IncPath(base, ts, file_type))
    IN /\ data.err = ""
       /\ data.backup_type = <<Word("inc")>>
       /\ data.base_timestamp = MinuteOf(base)
       /\ data.has_inc
       /\ data.inc_timestamp = MinuteOf(ts)

\* C16: for every backup entity of the run, in the chain map or about to be
\* created, decoding the name derived from it gives back the same kind,
\* exactly full or inc, and the same timestamps at minute resolution, with or
\* without a file-type suffix.
C16_PathRoundTrip ==
    /\ \A k \in DOMAIN existing_backups :
          /\ FullRoundTrip(k)
          /\ \A j \in 1..Len(existing_backups[k]) :
                IncRoundTrip(k, existing_backups[k][j])
    /\ new_backup.kind = "full" => FullRoundTrip(new_backup.timestamp)
    /\ new_backup.kind = "inc" =>
          IncRoundTrip(new_backup.base, new_backup.timestamp)

\* the builder was called without any object and with an empty list of
\* ignored databases
DefaultScopeEmptyList ==
    /\ call # NoCall
    /\ call.objects = {}
    /\ call.ignored_given
    /\ call.ignored_databases = <<>>

\* C13: building a BACKUP or RESTORE statement with the default scope and an
\* empty list of ignored databases raises a configuration error and never
\* produces a statement.
C13_EmptyIgnoredListRejected ==
    DefaultScopeEmptyList =>
        /\ query = <<>>
        /\ pc = "exit"
        /\ raised = "ValueError"

\* the parameters the target needs
RequiredParams(target) ==
    (IF target = "File" THEN {"backup_dir"} ELSE {})
    \cup (IF target \in {"Disk", "S3-Disk"} THEN {"disk"} ELSE {})
    \cup (IF target \in {"S3", "S3-Disk"}
          THEN {"s3_endpoint", "s3_bucket", "s3_access_key_id",
                "s3_secret_access_key"}
          ELSE {})

\* C17: when a parameter the backup target needs is missing, constructing the
\* client fails with a configuration error, and the run ends with no statement
\* built or sent.
C17_MissingParameterRejected ==
    ((\E name \in RequiredParams(backup_target) : settings[name] = Missing)
       /\ pc # "construct") =>
        /\ pc = "exit"
        /\ exitCode = 1
        /\ raised = "ValueError"
        /\ query = <<>>
        /\ submitted = 0

\* the number of times token tok occurs in seq
Count(seq, tok) == Cardinality({k \in 1..Len(seq) : seq[k] = tok})

\* seq ends with the tokens of tail
EndsWith(seq, tail) ==
    /\ Len(tail) <= Len(seq)
    /\ SubSeq(seq, Len(seq) - Len(tail) + 1, Len(seq)) = tail

\* seq holds the tokens of part, next to each other
Contains(seq, part) ==
    \E k \in 0..(Len(seq) - Len(part)) : SubSeq(seq, k + 1, k + Len(part)) = part

\* the address of a path, by target kind
Address(file_path) ==
    IF backup_target = "File"
    THEN <<Word("File('")>> \o file_path \o <<Word("')")>>
    ELSE IF backup_target = "S3"
    THEN <<Word("S3('"), Word(settings.s3_endpoint), Word("/"),
           Word(settings.s3_bucket), Word("/")>> \o file_path
            \o <<Word("', '"), Word(settings.s3_access_key_id), Word("', '"),
                 Word(settings.s3_secret_access_key), Word("')")>>
    ELSE <<Word("Disk('"), Word(settings.disk), Word("', '")>> \o file_path
            \o <<Word("')")>>

\* C18: a built statement holds the SETTINGS keyword at most once. With a base
\* backup it ends with the one clause SETTINGS base_backup=<address of the
\* base>, to which allow_non_empty_tables=true is comma-joined when a RESTORE
\* also sets overwrite; without base backup and overwrite it has no SETTINGS.
C18_OneSettingsClause ==
    query # <<>> =>
        LET base == <<Word("SETTINGS "), Word("base_backup=")>>
                       \o Address(call.base_backup)
        IN /\ Count(query, Word("SETTINGS ")) <= 1
           /\ (call.base_backup # <<>> /\ ~call.overwrite) =>
                 EndsWith(query, base)
           /\ (call.base_backup # <<>> /\ call.overwrite /\ ~call.is_backup) =>
                 EndsWith(query, base \o <<Word(", "),
                                            Word("allow_non_empty_tables=true")>>)
           /\ (call.base_backup = <<>> /\ ~call.overwrite) =>
                 Count(query, Word("SETTINGS ")) = 0

\* a RESTORE statement built with a base backup and overwrite
C18_Witness ==
    /\ pc = "built"
    /\ ~call.is_backup
    /\ call.overwrite
    /\ call.base_backup # <<>>
    /\ Count(query, Word("SETTINGS ")) = 1

\* C19: the target of a built statement and its base_backup setting are both
\* rendered by target kind, File('<path>'), Disk('<disk>', '<path>') for Disk
\* and S3-Disk, S3('<endpoint>/<bucket>/<path>', '<key id>', '<secret>') for
\* S3; a BACKUP names its target with TO, a RESTORE with FROM.
C19_AddressByTarget ==
    query # <<>> =>
        /\ Contains(query, <<Word(IF call.is_backup THEN "TO" ELSE "FROM"),
                             Word(" ")>> \o Address(call.backup) \o <<Word(" ")>>)
        /\ Count(query, Word(IF call.is_backup THEN "FROM" ELSE "TO")) = 0
        /\ Count(query, Word(IF call.is_backup THEN "BACKUP " ELSE "RESTORE ")) = 1
        /\ call.base_backup # <<>> =>
              Contains(query, <<Word("base_backup=")>> \o Address(call.base_backup))

\* a BACKUP statement for the S3-Disk target with a base backup
C19_Witness ==
    /\ pc = "built"
    /\ backup_target = "S3-Disk"
    /\ call.is_backup
    /\ call.base_backup # <<>>
    /\ Contains(query, <<Word("TO"), Word(" "), Word("Disk('")>>)

\* the run created a new full backup and returned
CreatedFull ==
    /\ pc = "exit"
    /\ raised = ""
    /\ status = "BACKUP_CREATED"
    /\ new_backup.kind = "full"

\* C21 as stated: for max_full_backups >= 1, after a run that created a new
\* full backup the number of chains (kept ones plus the new one) does not
\* exceed max_full_backups, whatever the number of chains before the run.
C21_Original ==
    (CreatedFull /\ max_full_backups >= 1) =>
        Cardinality(DOMAIN existing_backups) <= max_full_backups

\* C21: for max_full_backups >= 1, after a run that created a new full backup
\* the number of chains does not exceed max_full_backups, except when exactly
\* one chain existed before the run and max_full_backups = 1: the only chain is
\* never evicted and the run ends with two chains.
C21_ChainsWithinLimit ==
    (CreatedFull /\ max_full_backups >= 1) =>
        IF Cardinality(chainsBefore) = 1 /\ max_full_backups = 1
        THEN /\ evicted = <<>>
             /\ Cardinality(DOMAIN existing_backups) = 2
        ELSE Cardinality(DOMAIN existing_backups) <= max_full_backups

\* three chains before the run and limit two: two evicted, one kept, one new
C21_Witness ==
    /\ CreatedFull
    /\ max_full_backups = 2
    /\ Cardinality(chainsBefore) = 3
    /\ Len(evicted) = 2
    /\ Cardinality(DOMAIN existing_backups) = 2

\* C22: after a successful submission the loop keeps polling while the status
\* read is CREATING_BACKUP and has no timeout: the operation ends at a poll if
\* and only if that poll reads another status or finds no row, and once it
\* has ended no further poll is issued.
C22_PollsUntilStatusChanges ==
    /\ [][(pc = "poll" /\ polls' = polls + 1) =>
            (pc' = "poll" <=> status' = "CREATING_BACKUP")]_vars
    /\ [][(pc = "poll" /\ pc' # "poll") =>
            (pc' = "exit" /\ polls' = polls + 1)]_vars
    /\ [][pc = "exit" => polls' = polls]_vars

\* a poll read CREATING_BACKUP, the next one BACKUP_CREATED and ended the run
C22_Witness ==
    /\ pc = "exit"
    /\ polls = 2
    /\ initialStatus = "CREATING_BACKUP"
    /\ status = "BACKUP_CREATED"

\* the minute stamps of the full backups among the names S
ChainsIn(S) == {n[2].stamp : n \in {m \in S : Len(m) >= 4 /\ m[4] = Word("full")}}

\* the incremental artifacts among the names S of the chain with stamp b
IncsIn(S, b) ==
    {n \in S : Len(n) >= 6 /\ n[4] = Word("inc") /\ IsStamp(n[6])
                 /\ n[2] = Stamp(b)}

\* no chain among the names S has more than limit incrementals
WithinIncLimit(S, limit) ==
    \A b \in ChainsIn(S) : Cardinality(IncsIn(S, b)) <= limit

\* C23: a backup run, with or without --force-full, that starts from storage
\* in which no chain has more than max_incremental_backups incrementals ends
\* with such a storage, so the bound holds after any sequence of runs: an
\* incremental is added only to the newest chain and only while that chain
\* has fewer than max_incremental_backups.
C23_IncrementalsWithinLimit ==
    (pc = "exit" /\ new_backup # NoBackup
       /\ WithinIncLimit(listing, max_incremental_backups)) =>
        /\ WithinIncLimit(storage, max_incremental_backups)
        /\ new_backup.kind = "inc" =>
              /\ \A k \in chainsBefore : k <= new_backup.base
              /\ Cardinality(IncsIn(listing, format_timestamp(new_backup.base)))
                    < max_incremental_backups

\* the newest chain had one incremental, the limit is two, the run added the
\* second one
C23_Witness ==
    /\ pc = "exit"
    /\ raised = ""
    /\ status = "BACKUP_CREATED"
    /\ new_backup.kind = "inc"
    /\ max_incremental_backups = 2
    /\ Cardinality(chainsBefore) = 2
    /\ Cardinality(IncsIn(storage, format_timestamp(new_backup.base))) = 2

\* C24: for max_full_backups >= 1 the eviction pass never deletes every
\* existing chain: when the BACKUP statement is submitted, a chain that existed
\* before the run is still in the chain map and its full backup in storage.
C24_OneChainSurvives ==
    (submitted >= 1 /\ max_full_backups >= 1 /\ chainsBefore # {}) =>
        \E k \in chainsBefore :
            /\ k \notin Range(evicted)
            /\ k \in DOMAIN existing_backups
            /\ FullsOf(storage, format_timestamp(k)) # {}

\* C25: for max_full_backups >= 1, the chain chosen as base of an incremental
\* is never evicted in the same run: when the BACKUP statement with
\* base_backup is submitted, the base is in the chain map and its full backup
\* in storage.
C25_BaseNotEvicted ==
    (new_backup.kind = "inc" /\ max_full_backups >= 1) =>
        /\ new_backup.base \notin Range(evicted)
        /\ FullPath(new_backup.base, file_type) \notin Range(evictRemoves)
        /\ submitted >= 1 =>
              /\ new_backup.base \in DOMAIN existing_backups
              /\ FullsOf(storage, format_timestamp(new_backup.base)) # {}

\* an incremental was submitted after the pass evicted the older chain
C25_Witness ==
    /\ new_backup.kind = "inc"
    /\ max_full_backups = 1
    /\ submitted = 1
    /\ Len(evicted) = 1
    /\ evicted[1] < new_backup.base
    /\ FullPath(new_backup.base, file_type) \in storage
    /\ FullPath(evicted[1], file_type) \in listing \ storage

\* a deletion of the eviction pass raised
EvictionFailed ==
    /\ evictRemoves # <<>>
    /\ raised \in RemoveOutcomes \ {"ok"}

\* C28: a backup run submits at most one BACKUP statement, and only after
\* the eviction pass has finished without error: when a deletion of the pass
\* raises, the run exits with a non-zero code and submits nothing.
C28_SubmitAfterCleanup ==
    /\ submitted <= 1
    /\ submitted = 1 => (cleanPending = <<>> /\ ~EvictionFailed)
    /\ EvictionFailed => (pc = "exit" /\ exitCode = 1 /\ submitted = 0)

\* the pass evicted a chain without error and the statement was submitted
C28_Witness ==
    /\ submitted = 1
    /\ evicted # <<>>
    /\ Len(evictRemoves) >= 2
    /\ cleanPending = <<>>
    /\ raised = ""

\* C26: the list and restore commands are read-only: whatever the storage
\* holds, a run of either deletes no artifact from the storage backend and
\* sends no statement to the database.
C26_ListRestoreReadOnly ==
    command \in {"list", "restore"} =>
        /\ storage = listing
        /\ submitted = 0

\* C27: for every full and incremental backup of the chain map returned by
\* reconstruction, the name derived from the entity is the listed name it was
\* built from, so an eviction deletes only artifacts that were listed.
C27_PathIsListedName ==
    /\ pc = "command" =>
          \A k \in DOMAIN existing_backups :
              /\ FullPath(k, file_type) \in listing
              /\ \A j \in 1..Len(existing_backups[k]) :
                    IncPath(k, existing_backups[k][j], file_type) \in listing
    /\ Range(evictRemoves) \subseteq listing

====
